---- MODULE Spec2Model ----
(***************************************************************************)
(* Model of griberies/__init__.py: the GRIB definition file parser         *)
(* (read_gribdef) and the concept table store (GribDef).                   *)
(*                                                                         *)
(* Text is a sequence of one-character strings; a file is a sequence of    *)
(* raw lines.  A Python dict is a function; a field record (the inner      *)
(* dict of a table) is an object of the heap, named by a reference, so     *)
(* that copying and aliasing are visible.                                  *)
(***************************************************************************)
EXTENDS Integers, Sequences, FiniteSets, TLC

\* ------------------------------------------------------------------------
\* Characters and character classes of the regular expressions
\* ------------------------------------------------------------------------
Digits == {"0", "1", "2", "3", "4", "5", "6", "7", "8", "9"}

Letters ==
  {"a", "b", "c", "d", "e", "f", "g", "h", "i", "j", "k", "l", "m",
   "n", "o", "p", "q", "r", "s", "t", "u", "v", "w", "x", "y", "z"}

\* \w
WordChars == Letters \cup Digits \cup {"_"}

\* [\w\.\-\_ ]
NameChars == WordChars \cup {".", "-", "_", " "}

\* \s, and what str.strip() removes
Spaces == {" ", "\t"}

\* ("|')
Quotes == {"\"", "'"}

DigitVal ==
  [c \in Digits |->
     CASE c = "0" -> 0 [] c = "1" -> 1 [] c = "2" -> 2 [] c = "3" -> 3
       [] c = "4" -> 4 [] c = "5" -> 5 [] c = "6" -> 6 [] c = "7" -> 7
       [] c = "8" -> 8 [] c = "9" -> 9]

\* Python's None, as a regex group that did not take part in the match and
\* as a dict key; no text equals it.
None == <<"None">>

\* The reserved attribute name '#comment'.
CommentKey == <<"#", "c", "o", "m", "m", "e", "n", "t">>

\* ------------------------------------------------------------------------
\* Python values and dicts
\* ------------------------------------------------------------------------
IntVal(n) == [kind |-> "int", val |-> n, text |-> <<>>]
RealVal(n) == [kind |-> "real", val |-> n, text |-> <<>>]
StrVal(s) == [kind |-> "str", val |-> 0, text |-> s]

\* Python's == on attribute values: numbers compare by value whatever their
\* kind (3 == 3.0), a string equals only the same string.
PyEq(a, b) ==
  IF a.kind = "str" \/ b.kind = "str"
  THEN a.kind = b.kind /\ a.text = b.text
  ELSE a.val = b.val

EmptyDict == [k \in {} |-> 0]

DictSet(d, k, v) == [x \in DOMAIN d \cup {k} |-> IF x = k THEN v ELSE d[x]]

DictDel(d, k) == [x \in DOMAIN d \ {k} |-> d[x]]

\* dict.update
DictUpdate(d, e) ==
  [x \in DOMAIN d \cup DOMAIN e |-> IF x \in DOMAIN e THEN e[x] ELSE d[x]]

\* ------------------------------------------------------------------------
\* String helpers
\* ------------------------------------------------------------------------
\* s[i:j], with 1-based i and exclusive j
Sub(s, i, j) == SubSeq(s, i, j - 1)

\* the index after the longest run of characters of Cls that starts at i
RECURSIVE Span(_, _, _)
Span(s, i, Cls) ==
  IF i <= Len(s) /\ s[i] \in Cls THEN Span(s, i + 1, Cls) ELSE i

\* the index before the longest run of characters of Cls that ends at j
RECURSIVE SpanBack(_, _, _)
SpanBack(s, j, Cls) ==
  IF j >= 1 /\ s[j] \in Cls THEN SpanBack(s, j - 1, Cls) ELSE j

\* str.strip(chars)
StripChars(s, Cls) ==
  LET i == Span(s, 1, Cls)
      j == SpanBack(s, Len(s), Cls)
  IN IF i > j THEN <<>> ELSE SubSeq(s, i, j)

\* str.strip()
Strip(s) == StripChars(s, Spaces)

\* line.replace(';', ';\n').replace('{ ', '{\n').split('\n'), each piece
\* stripped: a piece ends after every ';' and after every '{' that a blank
\* follows (the blank is consumed); what remains is the last piece.
RECURSIVE SplitLine(_, _, _)
SplitLine(s, i, cur) ==
  IF i > Len(s) THEN <<Strip(cur)>>
  ELSE IF s[i] = ";"
       THEN <<Strip(Append(cur, ";"))>> \o SplitLine(s, i + 1, <<>>)
  ELSE IF s[i] = "{" /\ i + 1 <= Len(s) /\ s[i + 1] = " "
       THEN <<Strip(Append(cur, "{"))>> \o SplitLine(s, i + 2, <<>>)
  ELSE SplitLine(s, i + 1, Append(cur, s[i]))

\* the list 'lines' of read_gribdef, from the raw lines of the file
RECURSIVE Lines(_)
Lines(raw) ==
  IF raw = <<>> THEN <<>>
  ELSE SplitLine(Strip(Head(raw)), 1, <<>>) \o Lines(Tail(raw))

\* ------------------------------------------------------------------------
\* The regular expressions of read_gribdef
\* ------------------------------------------------------------------------
\* re_name.match(line): ("|')(?P<name>[\w\.\-\_ ]+)("|')\s*=
NameMatch(line) ==
  LET e == Span(line, 2, NameChars)
      q == Span(line, e + 1, Spaces)
  IN IF /\ Len(line) >= 1
        /\ line[1] \in Quotes
        /\ e > 2
        /\ e <= Len(line)
        /\ line[e] \in Quotes
        /\ q <= Len(line)
        /\ line[q] = "="
     THEN [ok |-> TRUE, name |-> Sub(line, 2, e)]
     ELSE [ok |-> FALSE, name |-> <<>>]

NoMatch == [ok |-> FALSE, key |-> None, int |-> None, real |-> None]

\* First branch of re_keyvalue.  The pattern is the concatenation
\*   (?P<key>\w+)\s*=\s*  (?P<int>\+|-?\d+)  |  (?P<real>...)  \s*;
\* and '|' binds weakest, so the branch is
\*   (?P<key>\w+)\s*=\s*(?P<int>\+|-?\d+)
\* with nothing required after the integer.
KvMatchInt(line) ==
  LET k == Span(line, 1, WordChars)
      a == Span(line, k, Spaces)
      b == Span(line, a + 1, Spaces)
      m == IF b <= Len(line) /\ line[b] = "-" THEN b + 1 ELSE b
      d == Span(line, m, Digits)
  IN IF k > 1 /\ a <= Len(line) /\ line[a] = "="
     THEN IF b <= Len(line) /\ line[b] = "+"
          THEN [ok |-> TRUE, key |-> Sub(line, 1, k),
                int |-> <<"+">>, real |-> None]
          ELSE IF d > m
               THEN [ok |-> TRUE, key |-> Sub(line, 1, k),
                     int |-> Sub(line, b, d), real |-> None]
               ELSE NoMatch
     ELSE NoMatch

\* '\s*;' at position i
SemiAt(line, i) ==
  LET j == Span(line, i, Spaces) IN j <= Len(line) /\ line[j] = ";"

\* Second branch of re_keyvalue, tried at the start of the line when the
\* first fails:  (?P<real>\+|-?\d*\.\d*e\+|-?\d*)\s*;
\* It has no key group, and its exponent form ends at 'e+'.
KvMatchReal(line) ==
  LET m == IF 1 <= Len(line) /\ line[1] = "-" THEN 2 ELSE 1
      d == Span(line, m, Digits)
      f == Span(line, d + 1, Digits)
      RealIs(j) == [ok |-> TRUE, key |-> None, int |-> None,
                    real |-> Sub(line, 1, j)]
  IN IF 1 <= Len(line) /\ line[1] = "+" /\ SemiAt(line, 2)
     THEN RealIs(2)
     ELSE IF /\ d <= Len(line) /\ line[d] = "."
             /\ f + 1 <= Len(line) /\ line[f] = "e" /\ line[f + 1] = "+"
             /\ SemiAt(line, f + 2)
          THEN RealIs(f + 2)
          ELSE IF SemiAt(line, d) THEN RealIs(d) ELSE NoMatch

\* re_keyvalue.match(line)
KvMatch(line) ==
  IF KvMatchInt(line).ok THEN KvMatchInt(line) ELSE KvMatchReal(line)

\* the value of a run of digits
RECURSIVE DigitsValue(_)
DigitsValue(s) ==
  IF s = <<>> THEN 0
  ELSE 10 * DigitsValue(SubSeq(s, 1, Len(s) - 1)) + DigitVal[s[Len(s)]]

\* an optional sign and at least one digit, nothing else
IsSignedDigits(s) ==
  LET m == IF s # <<>> /\ s[1] \in {"+", "-"} THEN 2 ELSE 1
  IN m <= Len(s) /\ Span(s, m, Digits) = Len(s) + 1

SignedDigitsValue(s) ==
  IF s[1] = "-" THEN 0 - DigitsValue(Tail(s))
  ELSE IF s[1] = "+" THEN DigitsValue(Tail(s))
  ELSE DigitsValue(s)

\* int(s): ValueError unless s is an optional sign and digits
PyInt(s) ==
  IF IsSignedDigits(s)
  THEN [val |-> SignedDigitsValue(s), ok |-> TRUE]
  ELSE [val |-> 0, ok |-> FALSE]

\* float(s) on the texts the real group can hold ('+', an exponent form
\* that ends at 'e+', or '-?\d*'): only signed digits convert; a bare sign
\* and a dangling exponent raise ValueError.
PyFloat(s) ==
  IF IsSignedDigits(s)
  THEN [val |-> SignedDigitsValue(s), ok |-> TRUE]
  ELSE [val |-> 0, ok |-> FALSE]

\* ------------------------------------------------------------------------
\* read_gribdef
\* ------------------------------------------------------------------------
\* the list 'indexes': the (field, i) of every line that re_name matches
RECURSIVE Indexes(_, _)
Indexes(lines, i) ==
  IF i > Len(lines) THEN <<>>
  ELSE IF NameMatch(lines[i]).ok
       THEN <<[i |-> i, field |-> NameMatch(lines[i]).name]>>
               \o Indexes(lines, i + 1)
       ELSE Indexes(lines, i + 1)

\* 'dico' after the first loop: an empty record for every declared field
InitialDico(indexes) ==
  [f \in {indexes[j].field : j \in 1..Len(indexes)} |-> EmptyDict]

\* the field names in the order 'dico' first received them
RECURSIVE FieldOrder(_, _)
FieldOrder(indexes, j) ==
  IF j > Len(indexes) THEN <<>>
  ELSE IF \E h \in 1..(j - 1) : indexes[h].field = indexes[j].field
       THEN FieldOrder(indexes, j + 1)
       ELSE <<indexes[j].field>> \o FieldOrder(indexes, j + 1)

\* dico[field][key] = value
SetAttr(dico, field, key, value) ==
  [dico EXCEPT ![field] = DictSet(@, key, value)]

\* The body of the loop on the lines of a field: store the converted
\* literal of a line that re_keyvalue matches.  st is [outcome, dico]; a
\* conversion that fails raises ValueError and leaves dico as it was built
\* so far.
StoreKeyValue(st, field, m) ==
  IF ~m.ok THEN st
  ELSE IF m.int # None /\ m.int # <<>>
       THEN IF PyInt(m.int).ok
            THEN [st EXCEPT !.dico =
                    SetAttr(@, field, m.key, IntVal(PyInt(m.int).val))]
            ELSE [st EXCEPT !.outcome = "ValueError"]
  ELSE IF m.real # None /\ m.real # <<>>
       THEN IF PyFloat(m.real).ok
            THEN [st EXCEPT !.dico =
                    SetAttr(@, field, m.key, RealVal(PyFloat(m.real).val))]
            ELSE [st EXCEPT !.outcome = "ValueError"]
  ELSE st

\* for i in range(istart, iend)
RECURSIVE ScanSpan(_, _, _, _, _)
ScanSpan(lines, field, i, iend, st) ==
  IF i >= iend \/ st.outcome # "ok" THEN st
  ELSE ScanSpan(lines, field, i + 1, iend,
                StoreKeyValue(st, field, KvMatch(lines[i])))

\* the comment of a field: the line before its header when it starts with
\* '#', without the '#', stripped, then stripped of double quotes
WithComment(lines, field, istart, st) ==
  IF istart > 1 /\ lines[istart - 1] # <<>> /\ lines[istart - 1][1] = "#"
  THEN [st EXCEPT !.dico =
          SetAttr(@, field, CommentKey,
                  StrVal(StripChars(Strip(Tail(lines[istart - 1])),
                                    {"\""})))]
  ELSE st

\* for (j, (field, istart)) in enumerate(indexes)
RECURSIVE FieldLoop(_, _, _, _)
FieldLoop(lines, indexes, j, st) ==
  IF j > Len(indexes) \/ st.outcome # "ok" THEN st
  ELSE LET field == indexes[j].field
           istart == indexes[j].i
           iend == IF j = Len(indexes) THEN Len(lines) + 1
                   ELSE indexes[j + 1].i
       IN FieldLoop(lines, indexes, j + 1,
                    ScanSpan(lines, field, istart, iend,
                             WithComment(lines, field, istart, st)))

\* read_gribdef on the raw lines of a file: outcome "ok" with the returned
\* dico, or "ValueError" with dico as it stood when the conversion raised;
\* order lists dico's keys in insertion order.
ReadGribdef(raw) ==
  LET lines == Lines(raw)
      indexes == Indexes(lines, 1)
      st == FieldLoop(lines, indexes, 1,
                      [dico |-> InitialDico(indexes), outcome |-> "ok"])
  IN [dico |-> st.dico,
      outcome |-> st.outcome,
      order |-> FieldOrder(indexes, 1)]

\* ------------------------------------------------------------------------
\* The files on disk
\* ------------------------------------------------------------------------
Foo == <<"f", "o", "o">>
Bar == <<"b", "a", "r">>
Qux == <<"q", "u", "x">>
Nope == <<"n", "o", "p", "e">>
Key == <<"k", "e", "y">>
Other == <<"o", "t", "h", "e", "r">>
KeyX == <<"x">>
KeyY == <<"y">>
KeyZ == <<"z">>
KeyW == <<"w">>

\* "name" = {
Header(q, name) == <<q>> \o name \o <<q, " ", "=", " ", "{">>

\* ' key = literal ;'
Attr(key, literal) == <<" ">> \o key \o <<" ", "=", " ">> \o literal \o <<" ", ";">>

Close == <<" ", "}">>

\* A file name: its directories and the stem of its base name, which ends
\* in '.def'.
FileA == [dirs |-> <<"grib2">>, stem |-> "c"]
FileB == [dirs |-> <<"grib2", "grib1">>, stem |-> "c"]
FileC == [dirs |-> <<"grib1">>, stem |-> "c"]
FileD == [dirs |-> <<"grib2">>, stem |-> "missing"]
FileE == [dirs |-> <<"local">>, stem |-> "d"]
NoFileName == [dirs |-> <<>>, stem |-> ""]

FileNames == {FileA, FileB, FileC, FileD, FileE}

\* the text of the example:  "foo" = { key = lit1 ; other = lit2 ; }
ExampleText(lit1, lit2) ==
  <<Header("\"", Foo) \o Attr(Key, lit1) \o Attr(Other, lit2) \o Close>>

\* The raw lines of every file; FileD does not exist.
Disk ==
  [fn \in FileNames |->
     CASE fn = FileA ->
            [raw |-> << <<"#", " ", "\"", "c", "m", "\"">>,
                        Header("\"", Foo) \o Attr(Key, <<"3">>)
                           \o Attr(KeyX, <<"1">>) \o Close,
                        Header("\"", Bar) \o Attr(Key, <<"4">>) \o Close >>,
             exists |-> TRUE]
       [] fn = FileB ->
            [raw |-> << Header("'", Foo) \o Attr(Key, <<"5">>)
                           \o Attr(KeyY, <<"2">>) \o Close >>,
             exists |-> TRUE]
       [] fn = FileC ->
            [raw |-> << Header("\"", Foo) \o Attr(Key, <<"3">>) \o Close,
                        Header("\"", Qux) \o Attr(KeyZ, <<"+", "3">>)
                           \o Close >>,
             exists |-> TRUE]
       [] fn = FileD -> [raw |-> <<>>, exists |-> FALSE]
       [] fn = FileE ->
            [raw |-> ExampleText(<<"3">>, <<"1", ".", "5", "e", "+", "2">>),
             exists |-> TRUE]]

\* io.open and read_gribdef on a file name
ReadFile(fn) ==
  IF Disk[fn].exists THEN ReadGribdef(Disk[fn].raw)
  ELSE [dico |-> EmptyDict, outcome |-> "IOError", order |-> <<>>]

\* read_gribdef(filename) for every file name: the files do not change and
\* read_gribdef is a function of the text alone
ParsedFiles == [fn \in FileNames |-> ReadFile(fn)]

\* ------------------------------------------------------------------------
\* The store: GribDef
\* ------------------------------------------------------------------------
VARIABLES
  tables,       \* self.tables: edition -> concept -> table; a table is a
                \* dict [keys, at] from field names to record references
  heap,         \* the field records (dicts) alive: reference -> record
  initialized,  \* self.initialized: "unset" (no such attribute) or "False"
  actualInits,  \* how many times _actual_init has run
  call,         \* the call made last
  ret           \* what it returned or raised

vars == <<tables, heap, initialized, actualInits, call, ret>>

\* how many runs of _actual_init the model follows
MaxActualInits == 2

Editions == {"grib1", "grib2"}

\* default_grib_edition
DefaultEdition == "grib2"

\* The reference of the record stored for a field of a table, and of a
\* record handed to the caller.
StoredRef(ed, concept, field) ==
  [field |-> field, ed |-> ed, concept |-> concept]

CallerRef(field) == [field |-> field, ed |-> "caller", concept |-> ""]

NoRef == [field |-> <<>>, ed |-> "", concept |-> ""]

EmptyFields == [keys |-> <<>>, at |-> EmptyDict]

\* the references a table or a returned mapping holds
RefsOf(t) == {t.at[f] : f \in DOMAIN t.at}

TableRefs(tbls) ==
  UNION {UNION {RefsOf(tbls[ed][c]) : c \in DOMAIN tbls[ed]} :
           ed \in DOMAIN tbls}

\* the records that remain alive: those of the tables and those the
\* caller received from the last call
Live(hp, tbls, r) ==
  LET keep == (TableRefs(tbls) \cup RefsOf(r.fields) \cup {r.rec})
                 \cap DOMAIN hp
  IN [x \in keep |-> hp[x]]

\* the tables with every reference replaced by the record it names
TableContents(tbls, hp) ==
  [ed \in DOMAIN tbls |->
     [c \in DOMAIN tbls[ed] |->
        [keys |-> tbls[ed][c].keys,
         at |-> [f \in DOMAIN tbls[ed][c].at |-> hp[tbls[ed][c].at[f]]]]]]

\* 'g in filename' for g in ('grib1', 'grib2'): the last match wins
InferEdition(fn, grib_edition) ==
  LET parts == {fn.dirs[i] : i \in 1..Len(fn.dirs)} \cup {fn.stem}
  IN IF grib_edition # "None" THEN grib_edition
     ELSE IF "grib2" \in parts THEN "grib2"
     ELSE IF "grib1" \in parts THEN "grib1"
     ELSE "None"

\* os.path.basename(filename).replace('.def', '')
ConceptOf(fn) == fn.stem

\* the keys of d that t lacks, in d's order
RECURSIVE NewKeys(_, _, _)
NewKeys(t, d, i) ==
  IF i > Len(d.keys) THEN <<>>
  ELSE IF d.keys[i] \in DOMAIN t.at THEN NewKeys(t, d, i + 1)
  ELSE <<d.keys[i]>> \o NewKeys(t, d, i + 1)

\* dict.update on tables: a key of d replaces the value of t, a new key is
\* appended
TableUpdate(t, d) ==
  [keys |-> t.keys \o NewKeys(t, d, 1), at |-> DictUpdate(t.at, d.at)]

\* Registered with a plausible fault: the record of a field that both the
\* table and the fragment define is updated attribute by attribute instead
\* of being replaced.
RegisteredMerging(tbls, hp, ed, concept, parsed) ==
  IF parsed.outcome # "ok" THEN [tables |-> tbls, heap |-> hp]
  ELSE LET dico == [keys |-> parsed.order,
                    at |-> [f \in DOMAIN parsed.dico |->
                              StoredRef(ed, concept, f)]]
           table == IF concept \in DOMAIN tbls[ed]
                    THEN TableUpdate(tbls[ed][concept], dico)
                    ELSE dico
       IN [tables |-> [tbls EXCEPT ![ed] = DictSet(@, concept, table)],
           heap |-> [r \in DOMAIN hp \cup RefsOf(dico) |->
                       IF r \in RefsOf(dico)
                       THEN IF r \in DOMAIN hp
                            THEN DictUpdate(hp[r], parsed.dico[r.field])
                            ELSE parsed.dico[r.field]
                       ELSE hp[r]]]

\* Registered with a plausible fault: the first registration of a concept
\* creates its table and leaves it empty.
RegisteredFirstEmpty(tbls, hp, ed, concept, parsed) ==
  IF parsed.outcome # "ok" THEN [tables |-> tbls, heap |-> hp]
  ELSE IF concept \notin DOMAIN tbls[ed]
       THEN [tables |-> [tbls EXCEPT ![ed] = DictSet(@, concept, EmptyFields)],
             heap |-> hp]
  ELSE LET dico == [keys |-> parsed.order,
                    at |-> [f \in DOMAIN parsed.dico |->
                              StoredRef(ed, concept, f)]]
       IN [tables |-> [tbls EXCEPT ![ed] =
                         DictSet(@, concept,
                                 TableUpdate(tbls[ed][concept], dico))],
           heap |-> [r \in DOMAIN hp \cup RefsOf(dico) |->
                       IF r \in RefsOf(dico) THEN parsed.dico[r.field]
                       ELSE hp[r]]]

\* Registered with a plausible fault: the fragment is assigned in both
\* branches, so it replaces the table it should update.
RegisteredReplacing(tbls, hp, ed, concept, parsed) ==
  IF parsed.outcome # "ok" THEN [tables |-> tbls, heap |-> hp]
  ELSE LET dico == [keys |-> parsed.order,
                    at |-> [f \in DOMAIN parsed.dico |->
                              StoredRef(ed, concept, f)]]
       IN [tables |-> [tbls EXCEPT ![ed] = DictSet(@, concept, dico)],
           heap |-> [r \in DOMAIN hp \cup RefsOf(dico) |->
                       IF r \in RefsOf(dico) THEN parsed.dico[r.field]
                       ELSE hp[r]]]

\* Registered with a plausible fault: the fragment is merged as far as it
\* was parsed when read_gribdef raised.
RegisteredPartial(tbls, hp, ed, concept, parsed) ==
  LET dico == [keys |-> parsed.order,
               at |-> [f \in DOMAIN parsed.dico |->
                         StoredRef(ed, concept, f)]]
      table == IF concept \in DOMAIN tbls[ed]
               THEN TableUpdate(tbls[ed][concept], dico)
               ELSE dico
  IN [tables |-> [tbls EXCEPT ![ed] = DictSet(@, concept, table)],
      heap |-> [r \in DOMAIN hp \cup RefsOf(dico) |->
                  IF r \in RefsOf(dico) THEN parsed.dico[r.field]
                  ELSE hp[r]]]

\* GribDef.read from 'if concept in self.tables[grib_edition]' on.  The
\* argument read_gribdef(filename) is evaluated before update() or the
\* assignment runs, so when it raises the tables are not touched.
Registered(tbls, hp, ed, concept, parsed) ==
  IF parsed.outcome # "ok" THEN [tables |-> tbls, heap |-> hp]
  ELSE LET dico == [keys |-> parsed.order,
                    at |-> [f \in DOMAIN parsed.dico |->
                              StoredRef(ed, concept, f)]]
           table == IF concept \in DOMAIN tbls[ed]
                    THEN TableUpdate(tbls[ed][concept], dico)
                    ELSE dico
       IN [tables |-> [tbls EXCEPT ![ed] = DictSet(@, concept, table)],
           heap |-> [r \in DOMAIN hp \cup RefsOf(dico) |->
                       IF r \in RefsOf(dico) THEN parsed.dico[r.field]
                       ELSE hp[r]]]

\* copy_copy with a plausible fault: the record itself is handed out
copy_alias(hp, ref) == [heap |-> hp, ref |-> ref]

\* copy.copy(record): a new record with the same attributes
copy_copy(hp, ref) ==
  LET new == CallerRef(ref.field)
  IN [heap |-> [r \in DOMAIN hp \cup {new} |->
                  IF r = new THEN hp[ref] ELSE hp[r]],
      ref |-> new]

\* what a method body hands back: the outcome ("ok" or the exception
\* raised), the record or the mapping returned, and the heap it leaves
Returned(rec, fields, hp) ==
  [outcome |-> "ok", heap |-> hp, fields |-> fields, rec |-> rec]

Raised(exc, hp) ==
  [outcome |-> exc, heap |-> hp, fields |-> EmptyFields, rec |-> NoRef]

\* The body of _get_def.
GetDefBody(tbls, hp, fid, concept, ed, include_comments) ==
  IF \/ ed \notin DOMAIN tbls
     \/ concept \notin DOMAIN tbls[ed]
     \/ fid \notin DOMAIN tbls[ed][concept].at
  THEN Raised("KeyError", hp)
  ELSE LET c == copy_copy(hp, tbls[ed][concept].at[fid])
       IN IF ~include_comments /\ CommentKey \in DOMAIN c.heap[c.ref]
          THEN Returned(c.ref, EmptyFields,
                        [c.heap EXCEPT ![c.ref] = DictDel(@, CommentKey)])
          ELSE Returned(c.ref, EmptyFields, c.heap)

\* Matches with a plausible fault: a key of the handgrip that the record
\* lacks is skipped instead of excluding the field.
MatchesOverlap(handgrip, gribfid) ==
  \A k \in DOMAIN handgrip \cap DOMAIN gribfid :
     PyEq(gribfid[k], handgrip[k])

\* the test of _lookup_from_kv on one field: the keys of the handgrip are
\* keys of the record, and no value differs
Matches(handgrip, gribfid) ==
  /\ DOMAIN handgrip \subseteq DOMAIN gribfid
  /\ \A k \in DOMAIN handgrip : PyEq(gribfid[k], handgrip[k])

\* for f, gribfid in self.tables[grib_edition][concept].items()
RECURSIVE CollectFields(_, _, _, _)
CollectFields(table, handgrip, i, acc) ==
  IF i > Len(table.keys) THEN acc
  ELSE LET f == table.keys[i]
       IN IF Matches(handgrip, acc.heap[table.at[f]])
          THEN LET c == copy_copy(acc.heap, table.at[f])
               IN CollectFields(table, handgrip, i + 1,
                    [heap |-> c.heap,
                     fields |-> [keys |-> Append(acc.fields.keys, f),
                                 at |-> DictSet(acc.fields.at, f, c.ref)]])
          ELSE CollectFields(table, handgrip, i + 1, acc)

\* for f, fid in fields.items(): fid.pop('#comment')
\* pop without a default raises KeyError on a record with no '#comment'.
RECURSIVE PopComments(_, _, _)
PopComments(fields, i, hp) ==
  IF i > Len(fields.keys) THEN Returned(NoRef, fields, hp)
  ELSE LET r == fields.at[fields.keys[i]]
       IN IF CommentKey \in DOMAIN hp[r]
          THEN PopComments(fields, i + 1,
                           [hp EXCEPT ![r] = DictDel(@, CommentKey)])
          ELSE Raised("KeyError", hp)

\* LookupFromKvBody with a plausible fault: a missing table is read with a
\* default, as an empty one.
LookupFromKvBodyDefault(tbls, hp, handgrip, concept, ed, include_comments) ==
  IF handgrip.shape = "name" THEN Raised("SyntaxError", hp)
  ELSE IF ed \notin DOMAIN tbls \/ concept \notin DOMAIN tbls[ed]
       THEN Returned(NoRef, EmptyFields, hp)
  ELSE LET got == CollectFields(tbls[ed][concept], handgrip.h, 1,
                                [heap |-> hp, fields |-> EmptyFields])
       IN IF include_comments THEN Returned(NoRef, got.fields, got.heap)
          ELSE PopComments(got.fields, 1, got.heap)

\* The body of _lookup_from_kv.  A handgrip given as a string goes through
\* parse_GRIBstr_todict: shape "kvstr" is a string that str2dict parses
\* into the dict h, shape "name" one on which it raises SyntaxError.
LookupFromKvBody(tbls, hp, handgrip, concept, ed, include_comments) ==
  IF handgrip.shape = "name" THEN Raised("SyntaxError", hp)
  ELSE IF ed \notin DOMAIN tbls \/ concept \notin DOMAIN tbls[ed]
       THEN Raised("KeyError", hp)
  ELSE LET got == CollectFields(tbls[ed][concept], handgrip.h, 1,
                                [heap |-> hp, fields |-> EmptyFields])
       IN IF include_comments THEN Returned(NoRef, got.fields, got.heap)
          ELSE PopComments(got.fields, 1, got.heap)

\* _actual_init: 'pass'; self.initialized is left as it is
ActualInit(initd) == initd

\* init_before: reading self.initialized raises AttributeError when the
\* attribute was never set; when it is false _actual_init runs.
InitBefore(initd, inits) ==
  IF initd = "unset"
  THEN [initialized |-> initd, inits |-> inits, raised |-> TRUE]
  ELSE IF initd = "False"
       THEN [initialized |-> ActualInit(initd),
             inits |-> inits + 1,
             raised |-> FALSE]
       ELSE [initialized |-> initd, inits |-> inits, raised |-> FALSE]

\* ------------------------------------------------------------------------
\* Calls and their arguments
\* ------------------------------------------------------------------------
\* A fid or handgrip argument: a dict h (shape "dict"), a string that
\* str2dict parses into h (shape "kvstr"), or a string that names a field
\* and on which str2dict raises SyntaxError (shape "name").
NoFid == [name |-> <<>>, h |-> EmptyDict, shape |-> "none"]

NameFid(name) == [name |-> name, h |-> EmptyDict, shape |-> "name"]

DictFid(h) == [name |-> <<>>, h |-> h, shape |-> "dict"]

KvStrFid(h) == [name |-> <<>>, h |-> h, shape |-> "kvstr"]

NoPrev == [outcome |-> "",
           grib_edition |-> "None",
           op |-> "",
           file |-> NoFileName]

NoCall ==
  [text |-> <<>>,
   concept |-> "",
   grib_edition |-> "None",
   fid |-> NoFid,
   include_comments |-> FALSE,
   op |-> "__init__",
   file |-> NoFileName,
   after |-> NoPrev]

NoResult == [outcome |-> "ok", fields |-> EmptyFields, rec |-> NoRef]

ResultOf(r) == [outcome |-> r.outcome, fields |-> r.fields, rec |-> r.rec]

\* the arguments the calls are made with
FieldNames == {Foo, Bar, Nope}

HandGrips ==
  {EmptyDict,
   Key :> IntVal(3),
   Key :> RealVal(3),
   Key :> IntVal(4),
   (Key :> IntVal(3)) @@ (KeyX :> IntVal(1)),
   KeyY :> IntVal(2)}

KvFids ==
  {DictFid(h) : h \in HandGrips}
    \cup {KvStrFid(Key :> IntVal(3)), NameFid(Foo)}

LookupFids ==
  {NameFid(n) : n \in FieldNames}
    \cup {DictFid(EmptyDict), DictFid(Key :> IntVal(3)),
          KvStrFid(Key :> IntVal(4))}

LookupConcepts == {"c", "zz"}

ReadCalls ==
  {<<FileA, "None">>, <<FileB, "None">>, <<FileC, "None">>,
   <<FileD, "None">>, <<FileE, "None">>, <<FileE, "grib1">>}

\* the concepts lists GribDef is constructed with
ConceptLists == {{}, {"c"}}

LookupOps == {"_lookup", "_get_def", "_lookup_from_kv"}

\* ------------------------------------------------------------------------
\* Construction and the operations
\* ------------------------------------------------------------------------
\* GribDef.__init__(actual_init, concepts)
Init ==
  \E actual_init \in BOOLEAN, concepts \in ConceptLists :
    /\ tables = [ed \in Editions |-> [c \in concepts |-> EmptyFields]]
    /\ heap = [r \in {} |-> EmptyDict]
    /\ initialized = IF actual_init THEN ActualInit("unset") ELSE "False"
    /\ actualInits = IF actual_init THEN 1 ELSE 0
    /\ call = NoCall
    /\ ret = NoResult

\* GribDef.read(filename, grib_edition)
Read(filename, grib_edition) ==
  LET ed == InferEdition(filename, grib_edition)
      parsed == ParsedFiles[filename]
      reg == Registered(tables, heap, ed, ConceptOf(filename), parsed)
      after == IF call.op = "read"
               THEN [outcome |-> ret.outcome,
                     grib_edition |-> call.grib_edition,
                     op |-> "read",
                     file |-> call.file]
               ELSE NoPrev
  IN /\ call' = [NoCall EXCEPT !.op = "read", !.file = filename,
                               !.grib_edition = grib_edition,
                               !.after = after]
     /\ IF ed \notin DOMAIN tables
        THEN /\ ret' = [NoResult EXCEPT !.outcome = "KeyError"]
             /\ tables' = tables
             /\ heap' = Live(heap, tables, NoResult)
        ELSE /\ ret' = [NoResult EXCEPT !.outcome = parsed.outcome]
             /\ tables' = reg.tables
             /\ heap' = Live(reg.heap, reg.tables, NoResult)
     /\ UNCHANGED <<initialized, actualInits>>

\* what a lookup leaves behind: the flag and the count of init_before, the
\* result, and the records still alive
Finish(op, fid, concept, ed, include_comments, pre, r) ==
  /\ pre.inits <= MaxActualInits
  /\ call' = [NoCall EXCEPT !.op = op, !.fid = fid, !.concept = concept,
                            !.grib_edition = ed,
                            !.include_comments = include_comments]
  /\ ret' = ResultOf(r)
  /\ heap' = Live(r.heap, tables, ResultOf(r))
  /\ initialized' = pre.initialized
  /\ actualInits' = pre.inits
  /\ tables' = tables

\* GribDef._get_def(fid, concept, grib_edition, include_comments)
GetDef(fid, concept, ed, include_comments) ==
  LET pre == InitBefore(initialized, actualInits)
      r == IF pre.raised THEN Raised("AttributeError", heap)
           ELSE GetDefBody(tables, heap, fid.name, concept, ed,
                           include_comments)
  IN Finish("_get_def", fid, concept, ed, include_comments, pre, r)

\* GribDef._lookup_from_kv(handgrip, concept, grib_edition,
\* include_comments)
LookupFromKv(handgrip, concept, ed, include_comments) ==
  LET pre == InitBefore(initialized, actualInits)
      r == IF pre.raised THEN Raised("AttributeError", heap)
           ELSE LookupFromKvBody(tables, heap, handgrip, concept, ed,
                                 include_comments)
  IN Finish("_lookup_from_kv", handgrip, concept, ed, include_comments,
            pre, r)

\* GribDef._lookup(fid, concept, grib_edition, include_comments): itself
\* decorated, it calls the decorated _get_def when str2dict raises
\* SyntaxError on fid and the decorated _lookup_from_kv otherwise.
Lookup(fid, concept, ed, include_comments) ==
  LET outer == InitBefore(initialized, actualInits)
      inner == InitBefore(outer.initialized, outer.inits)
      pre == IF outer.raised THEN outer ELSE inner
      r == IF pre.raised THEN Raised("AttributeError", heap)
           ELSE IF fid.shape = "name"
                THEN GetDefBody(tables, heap, fid.name, concept, ed,
                                include_comments)
                ELSE LookupFromKvBody(tables, heap, DictFid(fid.h), concept,
                                      ed, include_comments)
  IN Finish("_lookup", fid, concept, ed, include_comments, pre, r)

\* the records the last call handed to the caller
ReturnedRefs(r) == RefsOf(r.fields) \cup ({r.rec} \ {NoRef})

\* The caller changes a record a lookup returned: it sets an attribute
\* (adding or changing it) or deletes one.
Mutate(r, change, key) ==
  /\ call.op \in LookupOps
  /\ ret.outcome = "ok"
  /\ r \in ReturnedRefs(ret)
  /\ IF change = "del"
     THEN /\ key \in DOMAIN heap[r]
          /\ heap' = [heap EXCEPT ![r] = DictDel(@, key)]
     ELSE heap' = [heap EXCEPT ![r] = DictSet(@, key, IntVal(9))]
  /\ call' = [NoCall EXCEPT !.op = "mutate", !.concept = call.concept,
                            !.grib_edition = call.grib_edition]
  /\ UNCHANGED <<tables, initialized, actualInits, ret>>

Next ==
  \/ \E c \in ReadCalls : Read(c[1], c[2])
  \/ \E n \in FieldNames, concept \in LookupConcepts, ed \in Editions,
        include_comments \in BOOLEAN :
       GetDef(NameFid(n), concept, ed, include_comments)
  \/ \E h \in KvFids, concept \in LookupConcepts, ed \in Editions,
        include_comments \in BOOLEAN :
       LookupFromKv(h, concept, ed, include_comments)
  \/ \E fid \in LookupFids, concept \in LookupConcepts, ed \in Editions,
        include_comments \in BOOLEAN :
       Lookup(fid, concept, ed, include_comments)
  \/ \E r \in DOMAIN heap, change \in {"set", "del"}, key \in {Key, KeyW} :
       Mutate(r, change, key)

Spec == Init /\ [][Next]_vars

\* ------------------------------------------------------------------------
\* read_gribdef applied to the example text, for every pair of literals
\* ------------------------------------------------------------------------
Signs == {<<>>, <<"-">>, <<"+">>}

\* an integer literal: optional sign, digits
IntLiterals == [sign : Signs, digits : {<<"3">>, <<"0">>, <<"1", "2">>}]

IntText(a) == a.sign \o a.digits

\* a real literal: optional sign, digits, decimal point, digits, and an
\* optional exponent 'e+' digit; at least one digit around the point
RealLiterals ==
  {b \in [sign : {<<>>, <<"-">>},
          whole : {<<>>, <<"1">>, <<"2", "0">>},
          frac : {<<>>, <<"5">>, <<"0">>},
          exp : {<<>>, <<"0">>, <<"2">>}] :
     b.whole # <<>> \/ b.frac # <<>>}

RealText(b) ==
  b.sign \o b.whole \o <<".">> \o b.frac
     \o (IF b.exp = <<>> THEN <<>> ELSE <<"e", "+">> \o b.exp)

\* the inputs: the store as constructed, and the text to parse in call
InitParse ==
  /\ Init
  /\ initialized = "False"
  /\ tables = [ed \in Editions |-> EmptyDict]

DrawText(a, b) ==
  /\ call.op = "__init__"
  /\ call' = [NoCall EXCEPT !.op = "text",
                            !.text = ExampleText(IntText(a), RealText(b))]
  /\ UNCHANGED <<tables, heap, initialized, actualInits, ret>>

\* read_gribdef(text): the dict returned, its records on the heap, or the
\* exception raised
ParseText ==
  LET r == ReadGribdef(call.text)
      got == [keys |-> r.order,
              at |-> [f \in DOMAIN r.dico |-> CallerRef(f)]]
  IN /\ call.op = "text"
     /\ call' = [call EXCEPT !.op = "read_gribdef"]
     /\ IF r.outcome = "ok"
        THEN /\ ret' = [NoResult EXCEPT !.fields = got]
             /\ heap' = [x \in RefsOf(got) |-> r.dico[x.field]]
        ELSE /\ ret' = [NoResult EXCEPT !.outcome = r.outcome]
             /\ heap' = heap
     /\ UNCHANGED <<tables, initialized, actualInits>>

NextParse ==
  \/ \E a \in IntLiterals, b \in RealLiterals : DrawText(a, b)
  \/ ParseText

SpecParse == InitParse /\ [][NextParse]_vars

\* ------------------------------------------------------------------------
\* Properties
\* ------------------------------------------------------------------------
\* the tables, by content
Stored == TableContents(tables, heap)

\* the (edition, concept) a read call registers under
SlotOf(c) == <<InferEdition(c.file, c.grib_edition), ConceptOf(c.file)>>

\* this step is a successful read that follows a successful read under the
\* same (edition, concept)
TwoReads ==
  /\ call.op = "read" /\ ret.outcome = "ok"
  /\ call'.op = "read" /\ ret'.outcome = "ok"
  /\ SlotOf(call) = SlotOf(call')

\* C1, as amended: when two files are registered one after the other under
\* the same (edition, concept) and both define a field name, the stored
\* record of that field afterwards is the later file's record: for a key
\* both define the later value wins, and a key only the first file defines
\* is gone.
C1_LaterRecordReplaces ==
  [][TwoReads =>
       LET first == ParsedFiles[call.file].dico
           later == ParsedFiles[call'.file].dico
           slot == SlotOf(call')
       IN \A f \in DOMAIN first \cap DOMAIN later :
            Stored'[slot[1]][slot[2]].at[f] = later[f]]_vars

\* C1, as claimed: the stored record is the union of both files'
\* attributes, the later file winning on a key both define.
C1_UnionOfAttributes ==
  [][TwoReads =>
       LET first == ParsedFiles[call.file].dico
           later == ParsedFiles[call'.file].dico
           slot == SlotOf(call')
       IN \A f \in DOMAIN first \cap DOMAIN later :
            Stored'[slot[1]][slot[2]].at[f] = DictUpdate(first[f], later[f])]_vars

\* C1: a second file was registered over a first one that defines the same
\* field with a key of its own and a shared key of another value.
C1_Witness ==
  /\ call.op = "read" /\ ret.outcome = "ok"
  /\ call.after.op = "read" /\ call.after.outcome = "ok"
  /\ call.after.file # call.file
  /\ SlotOf(call.after) = SlotOf(call)
  /\ LET first == ParsedFiles[call.after.file].dico
         later == ParsedFiles[call.file].dico
         slot == SlotOf(call)
     IN \E f \in DOMAIN first \cap DOMAIN later :
          /\ DOMAIN first[f] \ DOMAIN later[f] # {}
          /\ \E k \in DOMAIN first[f] \cap DOMAIN later[f] :
               first[f][k] # later[f][k]
          /\ Stored[slot[1]][slot[2]].at[f] = later[f]

\* C2: on a store constructed with actual_init=False, _actual_init has run
\* exactly once as soon as a lookup has answered, and never more than once.
C2_ActualInitOnce ==
  initialized # "unset" =>
    /\ actualInits <= 1
    /\ call.op \in LookupOps => actualInits = 1

\* the fields of a table whose stored record holds every key of h with an
\* equal value
MatchingFields(t, h) ==
  {f \in DOMAIN t.at :
     \A k \in DOMAIN h : k \in DOMAIN t.at[f] /\ PyEq(t.at[f][k], h[k])}

\* the last call was _lookup_from_kv with a dict (or a string holding one)
\* on a table that exists
ReverseLookupOnTable ==
  /\ call.op = "_lookup_from_kv"
  /\ call.fid.shape \in {"dict", "kvstr"}
  /\ call.concept \in DOMAIN tables[call.grib_edition]

\* C3: _lookup_from_kv with include_comments true on a registered table
\* returns exactly the fields whose stored record holds every key of the
\* handgrip with an equal value, each with a record equal to the stored
\* one; on a store constructed with actual_init=False it always returns.
C3_ReverseLookupExact ==
  (ReverseLookupOnTable /\ call.include_comments) =>
    LET t == Stored[call.grib_edition][call.concept]
    IN /\ initialized # "unset" => ret.outcome = "ok"
       /\ ret.outcome = "ok" =>
            /\ DOMAIN ret.fields.at = MatchingFields(t, call.fid.h)
            /\ \A f \in DOMAIN ret.fields.at :
                 heap[ret.fields.at[f]] = t.at[f]

\* C3: a reverse lookup with a non-empty handgrip returned one field of a
\* table and left out another, one of them for a key it lacks.
C3_Witness ==
  /\ ReverseLookupOnTable /\ call.include_comments /\ ret.outcome = "ok"
  /\ call.fid.h # EmptyDict
  /\ LET t == Stored[call.grib_edition][call.concept]
     IN /\ DOMAIN ret.fields.at # {}
        /\ \E g \in DOMAIN t.at \ DOMAIN ret.fields.at :
             \E k \in DOMAIN call.fid.h : k \notin DOMAIN t.at[g]

\* the last call was a lookup on an (edition, concept) with no table
LookupOnMissingTable ==
  /\ call.op \in {"_get_def", "_lookup_from_kv"}
  /\ call.fid.shape \in {"dict", "kvstr", "name"}
  /\ call.op = "_lookup_from_kv" => call.fid.shape # "name"
  /\ call.concept \notin DOMAIN tables[call.grib_edition]

\* C4, as amended: on an (edition, concept) that has no table neither
\* lookup returns; once init_before lets the call through (a store made
\* with actual_init=False) _get_def and _lookup_from_kv both raise KeyError.
C4_MissingTableRaises ==
  LookupOnMissingTable =>
    /\ ret.outcome # "ok"
    /\ initialized # "unset" => ret.outcome = "KeyError"

\* C4, as claimed, on a store made with actual_init=False: _get_def raises
\* KeyError and _lookup_from_kv returns an empty mapping without raising.
C4_ReverseReturnsEmpty ==
  (LookupOnMissingTable /\ initialized # "unset") =>
    /\ call.op = "_get_def" => ret.outcome = "KeyError"
    /\ call.op = "_lookup_from_kv" =>
         ret.outcome = "ok" /\ ret.fields = EmptyFields

\* C4: a reverse lookup on an (edition, concept) with no table has raised
\* KeyError.
C4_Witness ==
  /\ LookupOnMissingTable
  /\ call.op = "_lookup_from_kv"
  /\ ret.outcome = "KeyError"

\* C5: on a store whose lookups run, _lookup_from_kv with include_comments
\* false on a registered table returns without error, for every matching
\* field, the stored record without '#comment' and with every other
\* attribute, whether or not the field carries a '#comment'.
C5_StripsCommentsUniformly ==
  (ReverseLookupOnTable /\ ~call.include_comments /\ initialized # "unset")
    =>
    LET t == Stored[call.grib_edition][call.concept]
    IN /\ ret.outcome = "ok"
       /\ DOMAIN ret.fields.at = MatchingFields(t, call.fid.h)
       /\ \A f \in DOMAIN ret.fields.at :
            heap[ret.fields.at[f]] = DictDel(t.at[f], CommentKey)

\* C6: a lookup, and a change the caller makes to a record a lookup
\* returned, leave the stored tables as they were.
C6_LookupsReturnCopies ==
  [][call'.op \in LookupOps \cup {"mutate"} => Stored' = Stored]_vars

\* C6: the caller has changed a returned record, which now differs from
\* the stored record of that field.
C6_Witness ==
  /\ call.op = "mutate"
  /\ \E r \in ReturnedRefs(ret) :
       /\ r.ed = "caller"
       /\ r.field \in DOMAIN Stored[call.grib_edition][call.concept].at
       /\ heap[r] # Stored[call.grib_edition][call.concept].at[r.field]
       /\ \E k \in DOMAIN heap[r] :
            k \notin DOMAIN Stored[call.grib_edition][call.concept].at[r.field]

\* 10 to the power n
RECURSIVE Pow10(_)
Pow10(n) == IF n = 0 THEN 1 ELSE 10 * Pow10(n - 1)

\* the value of an integer literal
IntLiteralValue(a) ==
  IF a.sign = <<"-">> THEN 0 - DigitsValue(a.digits)
  ELSE DigitsValue(a.digits)

\* ten times the value of a real literal (its fraction has one digit at
\* most)
RealLiteralTenths(b) ==
  LET tenths == (10 * DigitsValue(b.whole) + DigitsValue(b.frac))
                   * Pow10(DigitsValue(b.exp))
  IN IF b.sign = <<"-">> THEN 0 - tenths ELSE tenths

\* C7: read_gribdef on  "foo" = { key = <integer> ; other = <real> ; }
\* returns {"foo": {"key": the integer, "other": the real number}}, key as
\* an integer and other as a real.
C7_LiteralsKeepValueAndKind ==
  call.op = "read_gribdef" =>
    \A a \in IntLiterals, b \in RealLiterals :
      call.text = ExampleText(IntText(a), RealText(b)) =>
        /\ ret.outcome = "ok"
        /\ DOMAIN ret.fields.at = {Foo}
        /\ LET rec == heap[ret.fields.at[Foo]]
           IN /\ DOMAIN rec = {Key, Other}
              /\ rec[Key] = IntVal(IntLiteralValue(a))
              /\ rec[Other].kind = "real"
              /\ 10 * rec[Other].val = RealLiteralTenths(b)

\* C8: a read of the file just read, with the same edition argument,
\* leaves the tables equal to what the first read left.
C8_ReadIdempotent ==
  [][(/\ call.op = "read" /\ call'.op = "read"
      /\ call'.file = call.file
      /\ call'.grib_edition = call.grib_edition)
       => Stored' = Stored]_vars

\* C8: a file that registers fields has been read twice in a row.
C8_Witness ==
  /\ call.op = "read" /\ ret.outcome = "ok"
  /\ call.after.op = "read" /\ call.after.outcome = "ok"
  /\ call.after.file = call.file
  /\ call.after.grib_edition = call.grib_edition
  /\ DOMAIN Stored[SlotOf(call)[1]][SlotOf(call)[2]].at # {}

\* C9: every table and every field name of a table is still there after
\* any step.
C9_NeverShrinks ==
  [][\A ed \in DOMAIN tables : \A c \in DOMAIN tables[ed] :
       /\ c \in DOMAIN tables'[ed]
       /\ DOMAIN tables[ed][c].at \subseteq DOMAIN tables'[ed][c].at]_vars

\* C9: a read has updated a table that holds a field its file does not
\* define.
C9_Witness ==
  /\ call.op = "read" /\ ret.outcome = "ok"
  /\ call.after.op = "read" /\ call.after.outcome = "ok"
  /\ SlotOf(call.after) = SlotOf(call)
  /\ \E f \in DOMAIN Stored[SlotOf(call)[1]][SlotOf(call)[2]].at :
       f \notin DOMAIN ParsedFiles[call.file].dico

\* C10: a read that raises IOError or ValueError leaves every table as it
\* was.
C10_FailedReadChangesNothing ==
  [][(call'.op = "read" /\ ret'.outcome \in {"IOError", "ValueError"})
       => Stored' = Stored]_vars

\* C10: a read has raised ValueError after read_gribdef had stored an
\* attribute of its fragment, and the table it was for holds none of it.
C10_Witness ==
  /\ call.op = "read" /\ ret.outcome = "ValueError"
  /\ \E f \in DOMAIN ParsedFiles[call.file].dico :
       /\ ParsedFiles[call.file].dico[f] # EmptyDict
       /\ \/ SlotOf(call)[2] \notin DOMAIN tables[SlotOf(call)[1]]
          \/ f \notin DOMAIN tables[SlotOf(call)[1]][SlotOf(call)[2]].at

====
